---------------------------- MODULE Spec2Model ----------------------------
(***************************************************************************)
(* Evolution LLM Assistant: the configuration store (config/config.c), the *)
(* OpenAI client (src/llm_client.c), the preferences dialog                *)
(* (src/llm-preferences-dialog.c) and the composer extension               *)
(* (src/evolution-llm-extension.c).                                        *)
(*                                                                         *)
(* C strings are sequences of one-character strings; the NULL pointer is   *)
(* the one-element sequence NULL, which is no C string.                    *)
(***************************************************************************)
EXTENDS Integers, Sequences, FiniteSets, TLC

\* ------------------------------------------------------------------ bounds

\* longest free-text configuration value enumerated
MaxLen == 2
\* longest response content enumerated
MaxContentLen == 3
\* longest API key of the enumerated family Key(0) .. Key(MaxKeyLen)
MaxKeyLen == 12
\* most uses of the generate action in a run
MaxTriggers == 2
\* most uses of the preferences action in a run
MaxDialogs == 1
\* longest "data" list enumerated
MaxModels == 4
\* most pieces a text handed to a text function is made of
MaxPieces == 4

\* ----------------------------------------------------------------- strings

NULL == <<"NULL">>

Placeholder == <<"y","o","u","r","_","o","p","e","n","a","i","_","a","p","i","_","k","e","y","_","h","e","r","e">>
DEFAULT_MODEL == <<"g","p","t","-","4","o","-","m","i","n","i">>
DEFAULT_HOTKEY == <<"c","t","r","l","+","s","h","i","f","t","+","g">>
DEFAULT_SYSTEM_PROMPT == <<"Y","o","u"," ","a","r","e"," ","a"," ","h","e","l","p","f","u","l"," ","e","m","a","i","l"," ","w","r","i","t","i","n","g"," ","a","s","s","i","s","t","a","n","t",".">>
DEFAULT_USER_NAME == <<"Y","o","u","r"," ","N","a","m","e">>
DEFAULT_USER_EMAIL == <<"y","o","u","r",".","e","m","a","i","l","@","e","x","a","m","p","l","e",".","c","o","m">>
Key32 == <<"s","k","-","0","1","2","3","4","5","6","7","8","9","a","b","c","d","e","f","0","1","2","3","4","5","6","7","8","9","a","b","c">>

\* a key of n characters
Key(n) == [i \in 1..n |-> "k"]

\* the characters free text is built from: a letter, the blanks g_ascii_isspace
\* knows (space, newline, form feed) and the key file's escape character
Chars == {"a", " ", "\n", "\f", "\\"}

\* every text of at most n characters
RECURSIVE Texts(_)
Texts(n) ==
    IF n = 0 THEN {<<>>}
    ELSE LET shorter == Texts(n - 1)
         IN shorter \cup {Append(s, c) : s \in shorter, c \in Chars}

g_ascii_isspace(c) == c \in {" ", "\t", "\n", "\r", "\f"}

\* g_strchug: the text from its first character that is no blank
g_strchug(s) ==
    LET solid == {i \in 1..Len(s) : ~g_ascii_isspace(s[i])}
    IN IF solid = {} THEN <<>>
       ELSE SubSeq(s, CHOOSE i \in solid : \A j \in solid : i <= j, Len(s))

\* g_strchomp: the text up to its last character that is no blank
g_strchomp(s) ==
    LET solid == {i \in 1..Len(s) : ~g_ascii_isspace(s[i])}
    IN IF solid = {} THEN <<>>
       ELSE SubSeq(s, 1, CHOOSE i \in solid : \A j \in solid : j <= i)

\* g_strstrip gone wrong: only the leading blanks go
g_strstrip_leading_only(s) == g_strchug(s)

g_strstrip(s) == g_strchomp(g_strchug(s))

\* the concatenation of pieces[lo], ..., pieces[hi]
RECURSIVE Concat(_, _, _)
Concat(pieces, lo, hi) ==
    IF lo > hi THEN <<>>
    ELSE IF lo = hi THEN pieces[lo]
    ELSE LET mid == (lo + hi) \div 2
         IN Concat(pieces, lo, mid) \o Concat(pieces, mid + 1, hi)

\* ---------------------------------------------------------------- key file

\* g_key_file_set_string: the text written after "key=".  Every newline,
\* carriage return and backslash is escaped; a space or tab is escaped while
\* only spaces, tabs, newlines and carriage returns came before it; any other
\* character, a form feed too, is written as it is.
key_file_escape(s) ==
    LET leading(i) == \A j \in 1..(i - 1) : s[j] \in {" ", "\t", "\n", "\r"}
        piece(i) ==
            LET c == s[i]
            IN IF c = " " THEN (IF leading(i) THEN <<"\\", "s">> ELSE <<c>>)
               ELSE IF c = "\t" THEN (IF leading(i) THEN <<"\\", "t">> ELSE <<c>>)
               ELSE IF c = "\n" THEN <<"\\", "n">>
               ELSE IF c = "\r" THEN <<"\\", "r">>
               ELSE IF c = "\\" THEN <<"\\", "\\">>
               ELSE <<c>>
    IN Concat([i \in 1..Len(s) |-> piece(i)], 1, Len(s))

\* g_key_file_get_string on the text kept for a key: escapes are undone, an
\* unknown escape is kept as written, a lone trailing backslash is dropped.
key_file_unescape(raw) ==
    LET \* the backslashes that stand right before position i
        run(i) == i - 1 - (CHOOSE j \in 0..(i - 1) :
                              /\ j = 0 \/ raw[j] # "\\"
                              /\ \A k \in (j + 1)..(i - 1) : raw[k] = "\\")
        starts(i) == raw[i] = "\\" /\ run(i) % 2 = 0
        decoded(e) ==
            IF e = "s" THEN <<" ">>
            ELSE IF e = "n" THEN <<"\n">>
            ELSE IF e = "t" THEN <<"\t">>
            ELSE IF e = "r" THEN <<"\r">>
            ELSE IF e = "\\" THEN <<"\\">>
            ELSE <<"\\", e>>
        piece(i) ==
            IF starts(i) THEN (IF i = Len(raw) THEN <<>> ELSE decoded(raw[i + 1]))
            ELSE IF i > 1 /\ starts(i - 1) THEN <<>>
            ELSE <<raw[i]>>
    IN Concat([i \in 1..Len(raw) |-> piece(i)], 1, Len(raw))

\* a key's value as the parser keeps it (blanks after "=" are skipped) and as
\* g_key_file_get_string returns it; NULL for a key the file does not hold
g_key_file_get_string(raw) ==
    IF raw = NULL THEN NULL ELSE key_file_unescape(g_strchug(raw))

g_key_file_set_string(value) == key_file_escape(value)

\* ------------------------------------------------------------- config store

\* PluginConfig *: NULLCONFIG is the NULL pointer
NULLCONFIG == [null |-> TRUE]

PluginConfig(key, model, hotkey, prompt, name, email) ==
    [openai_api_key |-> key, model |-> model, hotkey |-> hotkey,
     system_prompt |-> prompt, user_name |-> name, user_email |-> email]

\* the storage file: whether it exists, whether g_key_file_load_from_file can
\* read and parse it, and the text it holds for each key (NULL: key not there)
KeyFile(key, model, hotkey, prompt, name, email) ==
    [exists |-> TRUE, parseable |-> TRUE,
     api_key |-> key, model |-> model, hotkey |-> hotkey,
     system_prompt |-> prompt, name |-> name, email |-> email]

NoFile ==
    [exists |-> FALSE, parseable |-> FALSE,
     api_key |-> NULL, model |-> NULL, hotkey |-> NULL,
     system_prompt |-> NULL, name |-> NULL, email |-> NULL]

UnparseableFile == [NoFile EXCEPT !.exists = TRUE]

create_default_config ==
    KeyFile(g_key_file_set_string(Placeholder),
            g_key_file_set_string(DEFAULT_MODEL),
            g_key_file_set_string(DEFAULT_HOTKEY),
            g_key_file_set_string(DEFAULT_SYSTEM_PROMPT),
            g_key_file_set_string(DEFAULT_USER_NAME),
            g_key_file_set_string(DEFAULT_USER_EMAIL))

OrDefault(value, default) == IF value = NULL THEN default ELSE value

\* config_load gone wrong: a missing hotkey is left absent
config_load_hotkey_left_absent(f, created) ==
    LET f1 == IF ~f.exists /\ created THEN create_default_config ELSE f
    IN IF ~(f1.exists /\ f1.parseable)
       THEN [config |-> NULLCONFIG, file |-> f1]
       ELSE [config |->
                PluginConfig(g_key_file_get_string(f1.api_key),
                             OrDefault(g_key_file_get_string(f1.model), DEFAULT_MODEL),
                             g_key_file_get_string(f1.hotkey),
                             OrDefault(g_key_file_get_string(f1.system_prompt), DEFAULT_SYSTEM_PROMPT),
                             g_key_file_get_string(f1.name),
                             g_key_file_get_string(f1.email)),
             file |-> f1]

\* config_load on storage f; created tells whether writing the default file
\* succeeded when none exists.  Gives the configuration and the storage left.
config_load(f, created) ==
    LET f1 == IF ~f.exists /\ created THEN create_default_config ELSE f
    IN IF ~(f1.exists /\ f1.parseable)
       THEN [config |-> NULLCONFIG, file |-> f1]
       ELSE [config |->
                PluginConfig(g_key_file_get_string(f1.api_key),
                             OrDefault(g_key_file_get_string(f1.model), DEFAULT_MODEL),
                             OrDefault(g_key_file_get_string(f1.hotkey), DEFAULT_HOTKEY),
                             OrDefault(g_key_file_get_string(f1.system_prompt), DEFAULT_SYSTEM_PROMPT),
                             g_key_file_get_string(f1.name),
                             g_key_file_get_string(f1.email)),
             file |-> f1]

\* config_is_valid gone wrong: a key of exactly 10 characters passes
config_is_valid_off_by_one(c) ==
    IF c = NULLCONFIG THEN FALSE
    ELSE /\ c.openai_api_key # NULL
         /\ c.openai_api_key # Placeholder
         /\ Len(c.openai_api_key) >= 10

config_is_valid(c) ==
    IF c = NULLCONFIG THEN FALSE
    ELSE /\ c.openai_api_key # NULL
         /\ c.openai_api_key # Placeholder
         /\ Len(c.openai_api_key) > 10

\* config_save of c over storage f; written tells whether g_file_set_contents
\* succeeded (it replaces the file as a whole or leaves it as it was).
config_save(c, f, written) ==
    IF c = NULLCONFIG THEN [result |-> FALSE, file |-> f]
    ELSE IF ~written THEN [result |-> FALSE, file |-> f]
    ELSE [result |-> TRUE,
          file |-> KeyFile(g_key_file_set_string(OrDefault(c.openai_api_key, <<>>)),
                           g_key_file_set_string(OrDefault(c.model, DEFAULT_MODEL)),
                           g_key_file_set_string(OrDefault(c.hotkey, DEFAULT_HOTKEY)),
                           g_key_file_set_string(OrDefault(c.system_prompt, DEFAULT_SYSTEM_PROMPT)),
                           g_key_file_set_string(OrDefault(c.user_name, <<>>)),
                           g_key_file_set_string(OrDefault(c.user_email, <<>>)))]


\* ------------------------------------------------------------------ client

\* what the chat-completion exchange can bring back.  A body is the text the
\* write callback gathered, as json-glib sees it: whether it parses, what its
\* root is, and what stands under "choices".
Absent == [t |-> "absent"]
JNull == [t |-> "null"]
JNumber == [t |-> "number"]
JString(s) == [t |-> "string", s |-> s]
JMessage(content) == [t |-> "object", content |-> content]
JChoice(message) == [t |-> "object", message |-> message]
JChoices(items) == [t |-> "array", items |-> items]

Unparseable == [parses |-> FALSE, root |-> "none", choices |-> Absent]
JDoc(root, choices) == [parses |-> TRUE, root |-> root, choices |-> choices]

CurlInitFailed == [kind |-> "curl_init_failed", status |-> 0, doc |-> Unparseable]
TransportError == [kind |-> "transport_error", status |-> 0, doc |-> Unparseable]
EmptyBody(status) == [kind |-> "empty_body", status |-> status, doc |-> Unparseable]
Body(status, doc) == [kind |-> "body", status |-> status, doc |-> doc]

MAX_TOKENS == 500
\* the sampling temperature 0.7, in tenths
TEMPERATURE_TENTHS == 7

\* build_user_prompt gone wrong: the prompt marker is put in front
build_user_prompt_prefixed(request) == <<"/", "a", "w", ":">> \o request.prompt

build_user_prompt(request) == request.prompt

\* the POST llm_client_generate_response sets up for client configuration c
chat_completion_post(c, request) ==
    [authorization |-> c.openai_api_key,
     model |-> c.model,
     messages |-> <<[role |-> "system",
                     content |-> OrDefault(c.system_prompt, DEFAULT_SYSTEM_PROMPT)],
                    [role |-> "user", content |-> build_user_prompt(request)]>>,
     max_tokens |-> MAX_TOKENS,
     temperature |-> TEMPERATURE_TENTHS]

NoPost ==
    [authorization |-> NULL, model |-> NULL, messages |-> <<>>,
     max_tokens |-> 0, temperature |-> 0]

\* response_content gone wrong: a first choice without a content string counts
\* as an empty content
response_content_lenient(outcome) ==
    IF outcome.kind # "body" THEN NULL
    ELSE IF ~outcome.doc.parses THEN NULL
    ELSE IF outcome.doc.root # "object" THEN NULL
    ELSE IF outcome.doc.choices.t = "absent" THEN NULL
    ELSE LET choices == outcome.doc.choices
             length == IF choices.t = "array" THEN Len(choices.items) ELSE 0
         IN IF ~(length > 0) THEN <<>>
            ELSE LET choice == choices.items[1]
                     message == IF choice.t = "object" THEN choice.message ELSE Absent
                     content == IF message.t = "object" THEN message.content ELSE Absent
                 IN IF content.t = "string" THEN content.s ELSE <<>>

\* the content string the response handling of llm_client_generate_response
\* finds, NULL when it finds none.  json-glib's accessors answer NULL (0 for a
\* length) when handed NULL or a node of another type.
response_content(outcome) ==
    IF outcome.kind # "body" THEN NULL
    ELSE IF ~outcome.doc.parses THEN NULL
    ELSE IF outcome.doc.root # "object" THEN NULL
    ELSE IF outcome.doc.choices.t = "absent" THEN NULL
    ELSE LET choices == outcome.doc.choices
             length == IF choices.t = "array" THEN Len(choices.items) ELSE 0
         IN IF ~(length > 0) THEN NULL
            ELSE LET choice == choices.items[1]
                     message == IF choice.t = "object" THEN choice.message ELSE Absent
                     content == IF message.t = "object" THEN message.content ELSE Absent
                 IN IF content.t = "string" THEN content.s ELSE NULL

\* LLMRequest
LLMRequest(prompt, response) == [prompt |-> prompt, response |-> response]
NULLREQUEST == [null |-> TRUE]

\* the g_warning llm_client_generate_response logs once the transfer is over:
\* one for a body that json_parser_load_from_data rejects, none otherwise
parse_warning(outcome) ==
    IF outcome.kind = "body" /\ ~outcome.doc.parses
    THEN "JSON parse error" ELSE "none"

\* llm_client_generate_response gone wrong: a body that does not parse is
\* passed over without a warning
llm_client_generate_response_silent(has_client, c, request, outcome) ==
    IF request = NULLREQUEST
    THEN [success |-> FALSE, response |-> NULL, transfers |-> 0, post |-> NoPost,
          warning |-> "none"]
    ELSE IF ~has_client \/ request.prompt = NULL \/ outcome.kind = "curl_init_failed"
    THEN [success |-> FALSE, response |-> request.response, transfers |-> 0,
          post |-> NoPost, warning |-> "none"]
    ELSE LET content == response_content(outcome)
         IN [success |-> content # NULL,
             response |-> IF content # NULL THEN g_strstrip(content)
                          ELSE request.response,
             transfers |-> 1,
             post |-> chat_completion_post(c, request),
             warning |-> "none"]

\* llm_client_generate_response gone wrong: success is set as soon as the
\* body parses, before a content string is found
llm_client_generate_response_parsed_is_success(has_client, c, request, outcome) ==
    IF request = NULLREQUEST
    THEN [success |-> FALSE, response |-> NULL, transfers |-> 0, post |-> NoPost,
          warning |-> "none"]
    ELSE IF ~has_client \/ request.prompt = NULL \/ outcome.kind = "curl_init_failed"
    THEN [success |-> FALSE, response |-> request.response, transfers |-> 0,
          post |-> NoPost, warning |-> "none"]
    ELSE LET content == response_content(outcome)
         IN [success |-> outcome.kind = "body" /\ outcome.doc.parses,
             response |-> IF content # NULL THEN g_strstrip(content)
                          ELSE request.response,
             transfers |-> 1,
             post |-> chat_completion_post(c, request),
             warning |-> parse_warning(outcome)]

\* llm_client_generate_response gone wrong: a transfer that brought no content
\* is made a second time
llm_client_generate_response_retrying(has_client, c, request, outcome) ==
    IF request = NULLREQUEST
    THEN [success |-> FALSE, response |-> NULL, transfers |-> 0, post |-> NoPost,
          warning |-> "none"]
    ELSE IF ~has_client \/ request.prompt = NULL \/ outcome.kind = "curl_init_failed"
    THEN [success |-> FALSE, response |-> request.response, transfers |-> 0,
          post |-> NoPost, warning |-> "none"]
    ELSE LET content == response_content(outcome)
         IN [success |-> content # NULL,
             response |-> IF content # NULL THEN g_strstrip(content)
                          ELSE request.response,
             transfers |-> IF content # NULL THEN 1 ELSE 2,
             post |-> chat_completion_post(c, request),
             warning |-> parse_warning(outcome)]

\* llm_client_generate_response(client, request) when the exchange ends with
\* outcome: has_client tells whether client is non-NULL and c is client->config.
\* Gives the return value, request->response afterwards, the number of
\* transfers performed (curl_easy_perform) and the POST they carried.
llm_client_generate_response(has_client, c, request, outcome) ==
    IF request = NULLREQUEST
    THEN [success |-> FALSE, response |-> NULL, transfers |-> 0, post |-> NoPost,
          warning |-> "none"]
    ELSE IF ~has_client \/ request.prompt = NULL \/ outcome.kind = "curl_init_failed"
    THEN [success |-> FALSE, response |-> request.response, transfers |-> 0,
          post |-> NoPost, warning |-> "none"]
    ELSE LET content == response_content(outcome)
         IN [success |-> content # NULL,
             response |-> IF content # NULL THEN g_strstrip(content)
                          ELSE request.response,
             transfers |-> 1,
             post |-> chat_completion_post(c, request),
             warning |-> parse_warning(outcome)]

\* ------------------------------------------------- the text functions

\* strstr(s, needle) as the index in s of the first occurrence, 0 for NULL
strstr(s, needle) ==
    LET found == {i \in 1..(Len(s) - Len(needle) + 1) :
                     SubSeq(s, i, i + Len(needle) - 1) = needle}
    IN IF found = {} THEN 0 ELSE CHOOSE i \in found : \A j \in found : i <= j

\* strchr gone wrong: the character is never found
strchr_never(s, from, ch) == 0

\* strchr(s + from - 1, ch) as the index in s of the first ch at or after
\* index from, 0 for NULL
strchr(s, from, ch) ==
    LET found == {i \in from..Len(s) : s[i] = ch}
    IN IF found = {} THEN 0 ELSE CHOOSE i \in found : \A j \in found : i <= j

\* while (*p == ' ') p++ : the index reached from index from
skip_spaces(s, from) ==
    CHOOSE i \in from..(Len(s) + 1) :
        /\ i = Len(s) + 1 \/ s[i] # " "
        /\ \A j \in from..(i - 1) : s[j] = " "

PROMPT_PREFIX == <<"/","a","w",":">>

\* llm_client_parse_prompt(text, prompt): the return value and *prompt
\* afterwards, which is NULL before; has_prompt tells whether prompt is
\* non-NULL
llm_client_parse_prompt(text, has_prompt) ==
    IF text = NULL \/ ~has_prompt THEN [result |-> FALSE, prompt |-> NULL]
    ELSE IF strstr(text, PROMPT_PREFIX) = 0 THEN [result |-> FALSE, prompt |-> NULL]
    ELSE LET prompt_start ==
                 skip_spaces(text, strstr(text, PROMPT_PREFIX) + Len(PROMPT_PREFIX))
             newline == strchr(text, prompt_start, "\n")
             prompt_end == IF newline = 0 THEN Len(text) + 1 ELSE newline
             prompt == g_strstrip(SubSeq(text, prompt_start, prompt_end - 1))
         IN [result |-> Len(prompt) > 0, prompt |-> prompt]

Unknown == <<"U","n","k","n","o","w","n">>

From_ == <<"F","r","o","m",":">>

\* llm_client_extract_sender_info(email_headers, sender_name, sender_email):
\* *sender_name and *sender_email afterwards, given what they held before
llm_client_extract_sender_info(email_headers, sender_name, sender_email) ==
    LET unchanged == [sender_name |-> sender_name, sender_email |-> sender_email]
    IN IF email_headers = NULL THEN unchanged
       ELSE IF strstr(email_headers, From_) = 0 THEN unchanged
       ELSE LET from_line == skip_spaces(email_headers, strstr(email_headers, From_) + 5)
                newline == strchr(email_headers, from_line, "\n")
                line_end == IF newline = 0 THEN Len(email_headers) + 1 ELSE newline
                from_value == g_strstrip(SubSeq(email_headers, from_line, line_end - 1))
                email_start == strchr(from_value, 1, "<")
                email_end == IF email_start = 0 THEN 0
                             ELSE strchr(from_value, email_start, ">")
            IN IF email_start # 0
               THEN IF email_end # 0
                    THEN [sender_name |-> g_strstrip(SubSeq(from_value, 1, email_start - 1)),
                          sender_email |-> SubSeq(from_value, email_start + 1, email_end - 1)]
                    ELSE unchanged
               ELSE IF strchr(from_value, 1, "@") # 0
                    THEN [sender_name |-> Unknown, sender_email |-> from_value]
                    ELSE unchanged

\* llm_client_extract_original_email(compose_text): the string returned,
\* NULL for none
llm_client_extract_original_email(compose_text) ==
    IF compose_text = NULL THEN NULL
    ELSE LET on == strstr(compose_text, <<"O","n"," ">>)
             quote_start == IF on = 0 THEN strstr(compose_text, <<">"," ">>) ELSE on
         IN IF quote_start # 0
            THEN SubSeq(compose_text, quote_start, Len(compose_text))
            ELSE NULL

\* ------------------------------------------------------------------- state

VARIABLES
    file,          \* the storage file config_get_file_path names
    config,        \* the PluginConfig in memory (priv->config, client->config)
    llm_client,    \* whether an LLMClient exists (priv->llm_client, client)
    cstep,         \* config store exercised alone: the operations applied
    is_valid,      \* ... what config_is_valid returned
    save_result,   \* ... what config_save returned
    loaded,        \* ... what config_load returned
    request,       \* client exercised alone: the LLMRequest
    exchange,      \* ... the call made on it: outcome met and what came back
    ext,           \* the ELLMExtension: "new", "init", "live" or "disposed"
    current_composer,  \* whether priv->current_composer is non-NULL
    prefs,         \* the preferences dialog (LLMPreferencesDialog) and its widgets
    pending,       \* JavaScript evaluations under way, one LLMProcessData each
    stack,         \* on_js_selection_result calls standing in their event pump
    last,          \* what the last on_js_selection_result to return has done
    trigger,       \* how the last llm_extension_process_prompt ended
    triggers,      \* uses of the generate action so far
    dialogs,       \* uses of the preferences action so far
    gets,          \* model-listing transfers performed so far
    posts,         \* chat-completion transfers performed so far
    call           \* a function exercised alone: its arguments and what it gave

store_vars == <<cstep, is_valid, save_result, loaded>>
client_vars == <<request, exchange>>
ext_vars == <<ext, current_composer, prefs, pending, stack, last, trigger,
              triggers, dialogs, gets, posts>>

vars == <<file, config, llm_client, store_vars, client_vars, ext_vars, call>>

NoExchange ==
    [state |-> "unsent", outcome |-> CurlInitFailed, success |-> FALSE,
     transfers |-> 0, post |-> NoPost, warning |-> "none"]

\* no function is exercised alone
NoCall == [fn |-> "none", done |-> FALSE]

ConfigIdle ==
    /\ cstep = <<>>
    /\ is_valid = FALSE
    /\ save_result = FALSE
    /\ loaded = NULLCONFIG

ClientIdle ==
    /\ request = NULLREQUEST
    /\ exchange = NoExchange

\* the preferences dialog when it is not on screen
NoDialog == [open |-> FALSE, entries |-> <<>>, active |-> -1, get |-> NULL]

\* no on_js_selection_result has returned yet
NoCallback ==
    [selection |-> "none", valid |-> FALSE, success |-> FALSE, response |-> NULL,
     transfers |-> 0, post |-> NoPost, dialog |-> "none", inserted |-> NULL]

ExtIdle ==
    /\ ext = "new"
    /\ current_composer = FALSE
    /\ prefs = NoDialog
    /\ pending = <<>>
    /\ stack = <<>>
    /\ last = NoCallback
    /\ trigger = "none"
    /\ triggers = 0
    /\ dialogs = 0
    /\ gets = 0
    /\ posts = 0

\* ------------------------------------------- the config store, on its own

gpt_4o == <<"g","p","t","-","4","o">>

KeyInputs == {NULL, Placeholder, Key32} \cup {Key(n) : n \in 0..MaxKeyLen}

ConfigInputs ==
    {PluginConfig(k, m, h, p, n, e) :
        k \in KeyInputs, m \in {NULL, gpt_4o}, h \in {NULL, <<"F", "5">>},
        p \in {NULL, <<"a">>}, n \in {NULL, <<"n">>}, e \in {NULL, <<"e">>}}
    \cup {PluginConfig(k, gpt_4o, DEFAULT_HOTKEY, p, <<"n">>, <<"e">>) :
            k \in {Key32}, p \in Texts(MaxLen)}
    \cup {PluginConfig(k, DEFAULT_MODEL, DEFAULT_HOTKEY, <<"a">>, n, <<>>) :
            k \in Texts(MaxLen), n \in {<<"n">>, <<" ", "n">>}}
    \cup {NULLCONFIG}

\* storage as a user may have left it: no file, a file that does not parse,
\* the default file, an empty file, a file with blanks after "=" and with
\* some keys missing
FileInputs ==
    {NoFile, UnparseableFile, create_default_config,
     KeyFile(NULL, NULL, NULL, NULL, NULL, NULL),
     KeyFile(<<" ">> \o Key32, <<" ", "m">>, NULL, <<"a", "\\", "n", "b">>, NULL, <<>>),
     KeyFile(<<>>, NULL, <<"F", "5">>, NULL, <<"n", " ">>, NULL)}

ConfigInit ==
    /\ file \in FileInputs
    /\ config \in ConfigInputs
    /\ llm_client = FALSE
    /\ ConfigIdle
    /\ ClientIdle
    /\ ExtIdle
    /\ call = NoCall

ConfigIsValid ==
    /\ cstep = <<>>
    /\ is_valid' = config_is_valid(config)
    /\ cstep' = <<"is_valid">>
    /\ UNCHANGED <<call, file, config, llm_client, save_result, loaded, client_vars, ext_vars>>

ConfigSave ==
    /\ cstep = <<>>
    /\ \E written \in BOOLEAN :
          LET r == config_save(config, file, written)
          IN /\ save_result' = r.result
             /\ file' = r.file
    /\ cstep' = <<"save">>
    /\ UNCHANGED <<call, config, llm_client, is_valid, loaded, client_vars, ext_vars>>

ConfigLoad ==
    /\ cstep \in {<<>>, <<"save">>}
    /\ \E created \in BOOLEAN :
          LET r == config_load(file, created)
          IN /\ loaded' = r.config
             /\ file' = r.file
    /\ cstep' = Append(cstep, "load")
    /\ UNCHANGED <<call, config, llm_client, is_valid, save_result, client_vars, ext_vars>>

ConfigNext == ConfigIsValid \/ ConfigSave \/ ConfigLoad

SpecConfig == ConfigInit /\ [][ConfigNext]_vars

\* ------------------------------------------------ the client, on its own

Contents == {Absent, JNull, JNumber} \cup {JString(s) : s \in Texts(MaxContentLen)}
Messages == {Absent, JString(<<"a">>)} \cup {JMessage(c) : c \in Contents}
FirstChoices == {JString(<<"a">>)} \cup {JChoice(m) : m \in Messages}
LaterChoices == {JString(<<"a">>), JChoice(JMessage(JString(<<"b">>)))}
ChoiceLists ==
    {<<>>} \cup {<<f>> : f \in FirstChoices}
    \cup {<<f, l>> : f \in FirstChoices, l \in LaterChoices}
Docs ==
    {Unparseable, JDoc("none", Absent), JDoc("array", Absent),
     JDoc("object", Absent), JDoc("object", JNull), JDoc("object", JString(<<"a">>))}
    \cup {JDoc("object", JChoices(l)) : l \in ChoiceLists}
Statuses == {200, 401}
Outcomes ==
    {CurlInitFailed, TransportError}
    \cup {EmptyBody(st) : st \in Statuses}
    \cup {Body(st, d) : st \in Statuses, d \in Docs}

ClientConfigs ==
    {PluginConfig(k, m, DEFAULT_HOTKEY, p, NULL, NULL) :
        k \in {Key32, <<>>}, m \in {DEFAULT_MODEL, gpt_4o},
        p \in {NULL, <<>>, <<"a", " ">>}}

RequestInputs ==
    {NULLREQUEST}
    \cup {LLMRequest(p, NULL) : p \in {NULL, <<>>, <<"a">>, <<" ", "a", "\n">>}}

ClientInit ==
    /\ file = NoFile
    /\ config \in ClientConfigs
    /\ llm_client \in BOOLEAN
    /\ request \in RequestInputs
    /\ exchange = NoExchange
    /\ ConfigIdle
    /\ ExtIdle
    /\ call = NoCall

ClientGenerate ==
    /\ exchange.state = "unsent"
    /\ \E outcome \in Outcomes :
          LET r == llm_client_generate_response(llm_client, config, request, outcome)
          IN /\ exchange' = [state |-> "returned", outcome |-> outcome,
                             success |-> r.success, transfers |-> r.transfers,
                             post |-> r.post, warning |-> r.warning]
             /\ request' = IF request = NULLREQUEST THEN request
                           ELSE [request EXCEPT !.response = r.response]
    /\ UNCHANGED <<call, file, config, llm_client, store_vars, ext_vars>>

ClientNext == ClientGenerate

SpecClient == ClientInit /\ [][ClientNext]_vars

\* ------------------------------------------------------ the model listing

gpt_4o_mini == <<"g","p","t","-","4","o","-","m","i","n","i">>
gpt_4_turbo == <<"g","p","t","-","4","-","t","u","r","b","o">>
gpt_4 == <<"g","p","t","-","4">>
gpt_3_5_turbo == <<"g","p","t","-","3",".","5","-","t","u","r","b","o">>

\* the identifiers of the built-in list, in its order
available_models == <<gpt_4o, gpt_4o_mini, gpt_4_turbo, gpt_4, gpt_3_5_turbo>>

g_str_has_prefix(s, prefix) ==
    Len(s) >= Len(prefix) /\ SubSeq(s, 1, Len(prefix)) = prefix

\* g_str_has_suffix gone wrong: only the whole string counts as its suffix
g_str_has_suffix_whole(s, suffix) == s = suffix

g_str_has_suffix(s, suffix) ==
    Len(s) >= Len(suffix) /\ SubSeq(s, Len(s) - Len(suffix) + 1, Len(s)) = suffix

\* a gchar** : NULL, or the strings before the terminating NULL
NULLSTRV == [null |-> TRUE, ids |-> <<>>]
Strv(ids) == [null |-> FALSE, ids |-> ids]

\* the document of a GET /v1/models answer: an element of "data" is
\* JModel(id) or some other node
JModel(id) == [t |-> "object", id |-> id]
JModelList(items) == [t |-> "array", items |-> items]
ModelsDoc(root, data) == [parses |-> TRUE, root |-> root, data |-> data]

NoGet == [models |-> NULLSTRV, transfers |-> 0, authorization |-> NULL]

\* llm_client_fetch_available_models(api_key) when the exchange ends with
\* outcome: the list returned, the transfers performed and the key they bore
llm_client_fetch_available_models(api_key, outcome) ==
    IF api_key = NULL \/ Len(api_key) < 10 THEN NoGet
    ELSE IF outcome.kind = "curl_init_failed" THEN NoGet
    ELSE LET doc == outcome.doc
             length == IF doc.data.t = "array" THEN Len(doc.data.items) ELSE 0
             model_id(i) ==
                 LET model == doc.data.items[i]
                 IN IF model.t = "object" /\ model.id.t = "string"
                    THEN model.id.s ELSE NULL
             wanted(i) ==
                 /\ model_id(i) # NULL
                 /\ \/ g_str_has_prefix(model_id(i), gpt_4)
                    \/ g_str_has_prefix(model_id(i), <<"g","p","t","-","3",".","5">>)
                 /\ ~g_str_has_suffix(model_id(i), <<"-","v","i","s","i","o","n">>)
                 /\ ~g_str_has_suffix(model_id(i), <<"-","i","n","s","t","r","u","c","t">>)
                 /\ ~g_str_has_suffix(model_id(i),
                        <<"-","a","u","d","i","o","-","p","r","e","v","i","e","w">>)
             kept == SelectSeq([i \in 1..length |-> i], wanted)
             gpt_models == [n \in 1..Len(kept) |-> model_id(kept[n])]
         IN [models |-> IF outcome.kind = "body" /\ doc.parses
                           /\ doc.root = "object" /\ doc.data.t # "absent"
                        THEN Strv(gpt_models) ELSE NULLSTRV,
             transfers |-> 1,
             authorization |-> api_key]

\* ------------------------------------------------- the preferences dialog

\* gtk_combo_box_set_active on a combo box of n rows, then
\* gtk_combo_box_get_active: an index that names no row leaves none active
gtk_combo_box_set_active(n, index) ==
    IF index >= 0 /\ index < n THEN index ELSE -1

\* llm_preferences_dialog_show gone wrong: a listing that came back is used
\* even when it holds no identifier
llm_preferences_dialog_show_any_list(c, outcome) ==
    LET fetched == IF c.openai_api_key # NULL /\ Len(c.openai_api_key) > 10
                   THEN llm_client_fetch_available_models(c.openai_api_key, outcome)
                   ELSE NoGet
        entries == IF ~fetched.models.null THEN fetched.models.ids
                   ELSE available_models
        current == {i \in 1..Len(entries) : c.model # NULL /\ entries[i] = c.model}
        selected_index ==
            IF current = {} THEN 1
            ELSE (CHOOSE i \in current : \A j \in current : j <= i) - 1
    IN [open |-> TRUE,
        entries |-> entries,
        active |-> gtk_combo_box_set_active(Len(entries), selected_index),
        get |-> fetched.authorization]

\* llm_preferences_dialog_show(parent, config, ...) when the model listing
\* ends with outcome: the dialog put on screen, with the rows of its combo
\* box, the row made active (from 0) and the key of the GET it made, if any
llm_preferences_dialog_show(c, outcome) ==
    LET fetched == IF c.openai_api_key # NULL /\ Len(c.openai_api_key) > 10
                   THEN llm_client_fetch_available_models(c.openai_api_key, outcome)
                   ELSE NoGet
        entries == IF ~fetched.models.null /\ fetched.models.ids # <<>>
                   THEN fetched.models.ids
                   ELSE available_models
        current == {i \in 1..Len(entries) : c.model # NULL /\ entries[i] = c.model}
        selected_index ==
            IF current = {} THEN 1
            ELSE (CHOOSE i \in current : \A j \in current : j <= i) - 1
    IN [open |-> TRUE,
        entries |-> entries,
        active |-> gtk_combo_box_set_active(Len(entries), selected_index),
        get |-> fetched.authorization]

\* llm_client_new gone wrong: a client comes back for any configuration
llm_client_new_always(c) == TRUE

\* llm_client_new(config): whether a client comes back
llm_client_new(c) == config_is_valid(c)

\* on_preferences_response(dialog, response_id, prefs): prefs->config
\* afterwards, given the text of the entry, the active row of the combo box
\* and the text of the text view
on_preferences_response(c, response_id, api_key, active_index, system_prompt) ==
    IF response_id = "OK"
    THEN [c EXCEPT !.openai_api_key = api_key,
                   !.model = IF active_index >= 0 /\ active_index < Len(available_models)
                             THEN available_models[active_index + 1]
                             ELSE gpt_4o_mini,
                   !.system_prompt = system_prompt]
    ELSE c

\* on_preferences_response gone wrong: the save callback is called whatever
\* the response
save_callback_called_always(response_id) == TRUE

\* on_preferences_response(dialog, response_id, prefs): whether it calls
\* prefs->save_callback, which the extension sets to on_preferences_saved
save_callback_called(response_id) == response_id = "OK"

\* on_preferences_saved(config, extension): the file and priv->llm_client
\* afterwards
on_preferences_saved(c, f, has_client, written) ==
    LET saved == config_save(c, f, written)
    IN [file |-> saved.file,
        llm_client |-> IF saved.result THEN llm_client_new(c) ELSE has_client]

\* ----------------------------------------------------------- the extension

\* llm_extension_process_prompt(extension): how it ends, "evaluating" when
\* it has asked the web view for the selection.  editor tells whether the
\* HTML editor, the content editor and the web view are all found.
llm_extension_process_prompt(composer, c, editor) ==
    IF ~composer THEN "no_composer"
    ELSE IF ~config_is_valid(c) THEN "invalid_config"
    ELSE IF ~editor THEN "no_editor"
    ELSE "evaluating"

\* the end of on_js_selection_result gone wrong: a failed call is dropped
\* without a word
present_response_silent(success, response, html_editor) ==
    IF success /\ response # NULL
    THEN [dialog |-> "none", inserted |-> IF html_editor THEN response ELSE NULL]
    ELSE [dialog |-> "none", inserted |-> NULL]

\* the end of on_js_selection_result, once llm_client_generate_response has
\* returned: the dialog run and the text handed to
\* e_content_editor_insert_content (NULL when it is not called)
present_response(success, response, html_editor) ==
    IF success /\ response # NULL
    THEN [dialog |-> "none", inserted |-> IF html_editor THEN response ELSE NULL]
    ELSE [dialog |-> "generation_failed", inserted |-> NULL]

dall_e_3 == <<"d","a","l","l","-","e","-","3">>
gpt_4_vision == <<"g","p","t","-","4","-","v","i","s","i","o","n">>

\* storage at start-up
ExtFiles ==
    {NoFile, UnparseableFile,
     KeyFile(Key32, NULL, NULL, NULL, NULL, NULL),
     KeyFile(<<>>, gpt_4, DEFAULT_HOTKEY, <<"b">>, <<>>, <<>>)}

\* what the selection script may give
Selections == {NULL, <<>>, <<"a">>}

\* how a chat-completion exchange may end
ExtOutcomes ==
    {CurlInitFailed, TransportError,
     Body(200, Unparseable),
     Body(401, JDoc("object", Absent)),
     Body(200, JDoc("object",
                    JChoices(<<JChoice(JMessage(JString(<<" ", "b">>)))>>)))}

\* how a model listing may end
ListOutcomes ==
    {CurlInitFailed, TransportError,
     Body(200, Unparseable),
     Body(401, ModelsDoc("object", Absent)),
     Body(200, ModelsDoc("object", JModelList(<<JModel(JString(gpt_4o))>>))),
     Body(200, ModelsDoc("object",
                         JModelList(<<JModel(JString(dall_e_3)),
                                      JModel(JString(gpt_4_turbo)),
                                      JString(gpt_4),
                                      JModel(JString(gpt_4_vision)),
                                      JModel(JString(gpt_4))>>)))}

Init ==
    /\ file \in ExtFiles
    /\ config = NULLCONFIG
    /\ llm_client = FALSE
    /\ ConfigIdle
    /\ ClientIdle
    /\ ExtIdle
    /\ call = NoCall

e_llm_extension_init ==
    /\ ext = "new"
    /\ \E created \in BOOLEAN :
          LET r == config_load(file, created)
          IN /\ config' = r.config
             /\ file' = r.file
             /\ llm_client' = (r.config # NULLCONFIG /\ llm_client_new(r.config))
    /\ ext' = "init"
    /\ UNCHANGED <<call, store_vars, client_vars, current_composer, prefs, pending,
                   stack, last, trigger, triggers, dialogs, gets, posts>>

\* llm_extension_constructed, with llm_extension_setup_composer
llm_extension_constructed ==
    /\ ext = "init"
    /\ ext' = "live"
    /\ current_composer' = TRUE
    /\ UNCHANGED <<call, file, config, llm_client, store_vars, client_vars, prefs,
                   pending, stack, last, trigger, triggers, dialogs, gets, posts>>

\* the hotkey or the context menu entry: action_llm_generate_cb, with
\* llm_extension_process_prompt.  The composer takes no input while a modal
\* dialog stands above it.
action_llm_generate_cb ==
    /\ ext = "live"
    /\ current_composer
    /\ ~prefs.open
    /\ stack = <<>>
    /\ triggers < MaxTriggers
    /\ \E editor \in BOOLEAN :
          LET r == llm_extension_process_prompt(current_composer, config, editor)
          IN /\ trigger' = r
             /\ pending' = IF r = "evaluating"
                           THEN Append(pending, [at_trigger |-> config])
                           ELSE pending
    /\ triggers' = triggers + 1
    /\ UNCHANGED <<call, file, config, llm_client, store_vars, client_vars, ext,
                   current_composer, prefs, stack, last, dialogs, gets, posts>>

\* the transfers under way: the calls on the stack that stand in
\* curl_easy_perform
Performing == {i \in 1..Len(stack) : stack[i].performing}

\* the main loop gone wrong: it dispatches while a transfer is under way
DispatchingAlways == TRUE

\* whether the main loop can dispatch a callback: curl_easy_perform does not
\* return before the transfer is over, and it runs on the one thread there is
Dispatching == Performing = {}

\* on_js_selection_result up to its event pump: the oldest evaluation
\* completes, also while an earlier call stands in its own pump
on_js_selection_result ==
    /\ pending # <<>>
    /\ Dispatching
    /\ \E error \in BOOLEAN, selected_text \in Selections :
          IF error
          THEN /\ last' = [NoCallback EXCEPT !.selection = "error",
                                             !.dialog = "selection_failed"]
               /\ stack' = stack
          ELSE IF selected_text = NULL \/ Len(selected_text) = 0
          THEN /\ last' = [NoCallback EXCEPT !.selection = "empty",
                                             !.dialog = "no_selection"]
               /\ stack' = stack
          ELSE /\ last' = last
               /\ stack' = Append(stack, [selected_text |-> selected_text,
                                          at_trigger |-> Head(pending).at_trigger,
                                          performing |-> FALSE,
                                          post |-> NoPost])
    /\ pending' = Tail(pending)
    /\ UNCHANGED <<call, file, config, llm_client, store_vars, client_vars, ext,
                   current_composer, prefs, trigger, triggers, dialogs, gets, posts>>

\* what on_js_selection_result has done when it returns after a call of
\* llm_client_generate_response that gave r
selection_callback_done(r) ==
    LET shown == present_response(r.success, r.response, current_composer)
    IN [selection |-> "text",
        valid |-> config_is_valid(config),
        success |-> r.success,
        response |-> r.response,
        transfers |-> r.transfers,
        post |-> r.post,
        dialog |-> shown.dialog,
        inserted |-> shown.inserted]

\* on_js_selection_result from the end of its event pump: the innermost call
\* calls llm_client_generate_response, which either returns at once (no
\* client, or curl_easy_init fails) and is presented, or starts its transfer
on_js_selection_result_send ==
    /\ stack # <<>>
    /\ ~stack[Len(stack)].performing
    /\ \E outcome \in {CurlInitFailed, TransportError} :
          LET data == stack[Len(stack)]
              r == llm_client_generate_response(
                       llm_client, config, LLMRequest(data.selected_text, NULL),
                       outcome)
          IN IF r.transfers = 0
             THEN /\ last' = selection_callback_done(r)
                  /\ stack' = SubSeq(stack, 1, Len(stack) - 1)
             ELSE /\ last' = last
                  /\ stack' = [stack EXCEPT ![Len(stack)] =
                                  [@ EXCEPT !.performing = TRUE, !.post = r.post]]
    /\ UNCHANGED <<call, file, config, llm_client, store_vars, client_vars, ext,
                   current_composer, prefs, pending, trigger, triggers, dialogs,
                   gets, posts>>

\* on_js_selection_result from the end of the transfer, which ends with
\* outcome: the rest of llm_client_generate_response, and what came back is
\* presented
on_js_selection_result_return ==
    /\ stack # <<>>
    /\ stack[Len(stack)].performing
    /\ \E outcome \in ExtOutcomes \ {CurlInitFailed} :
          LET data == stack[Len(stack)]
              r == llm_client_generate_response(
                       llm_client, config, LLMRequest(data.selected_text, NULL),
                       outcome)
          IN /\ last' = selection_callback_done(r)
             /\ posts' = posts + r.transfers
    /\ stack' = SubSeq(stack, 1, Len(stack) - 1)
    /\ UNCHANGED <<call, file, config, llm_client, store_vars, client_vars, ext,
                   current_composer, prefs, pending, trigger, triggers, dialogs,
                   gets>>

\* the context menu entry: action_llm_preferences_cb, with
\* llm_preferences_dialog_show
action_llm_preferences_cb ==
    /\ ext = "live"
    /\ current_composer
    /\ ~prefs.open
    /\ stack = <<>>
    /\ dialogs < MaxDialogs
    /\ \E outcome \in ListOutcomes :
          LET shown == IF config = NULLCONFIG THEN prefs
                       ELSE llm_preferences_dialog_show(config, outcome)
          IN /\ prefs' = shown
             /\ gets' = gets + IF shown.get # NULL THEN 1 ELSE 0
    /\ dialogs' = dialogs + 1
    /\ UNCHANGED <<call, file, config, llm_client, store_vars, client_vars, ext,
                   current_composer, pending, stack, last, trigger, triggers,
                   posts>>

\* what the user may have left in the entry, the combo box and the text view
ApiKeyEntries == {OrDefault(config.openai_api_key, <<>>), <<>>, Key(11)}
ActiveIndexes == {prefs.active, 0}
SystemPromptTexts == {OrDefault(config.system_prompt, <<>>), <<"b">>}

\* a button of the preferences dialog: on_preferences_response, with
\* on_preferences_saved
PreferencesResponse ==
    /\ prefs.open
    /\ stack = <<>>
    /\ \E response_id \in {"OK", "CANCEL"}, api_key_entry \in ApiKeyEntries,
          active_index \in ActiveIndexes, system_prompt_text \in SystemPromptTexts,
          written \in BOOLEAN :
          LET c == on_preferences_response(config, response_id, api_key_entry,
                                           active_index, system_prompt_text)
              saved == on_preferences_saved(c, file, llm_client, written)
          IN /\ config' = c
             /\ file' = IF save_callback_called(response_id) THEN saved.file ELSE file
             /\ llm_client' = IF save_callback_called(response_id) THEN saved.llm_client
                              ELSE llm_client
    /\ prefs' = NoDialog
    /\ UNCHANGED <<call, store_vars, client_vars, ext, current_composer, pending,
                   stack, last, trigger, triggers, dialogs, gets, posts>>

\* the composer goes away: on_composer_destroyed, with
\* llm_extension_cleanup_composer; the dialog goes with its parent
on_composer_destroyed ==
    /\ ext = "live"
    /\ current_composer
    /\ stack = <<>>
    /\ current_composer' = FALSE
    /\ prefs' = NoDialog
    /\ UNCHANGED <<call, file, config, llm_client, store_vars, client_vars, ext,
                   pending, stack, last, trigger, triggers, dialogs, gets, posts>>

\* the last reference goes: the composer's and those of the LLMProcessData
llm_extension_dispose ==
    /\ ext = "live"
    /\ ~current_composer
    /\ pending = <<>>
    /\ stack = <<>>
    /\ ext' = "disposed"
    /\ llm_client' = FALSE
    /\ config' = NULLCONFIG
    /\ UNCHANGED <<call, file, store_vars, client_vars, current_composer, prefs,
                   pending, stack, last, trigger, triggers, dialogs, gets, posts>>

Next ==
    \/ e_llm_extension_init
    \/ llm_extension_constructed
    \/ action_llm_generate_cb
    \/ on_js_selection_result
    \/ on_js_selection_result_send
    \/ on_js_selection_result_return
    \/ action_llm_preferences_cb
    \/ PreferencesResponse
    \/ on_composer_destroyed
    \/ llm_extension_dispose

Spec == Init /\ [][Next]_vars

\* -------------------------------------------- the model listing, on its own

gpt_4o_vision == gpt_4o \o <<"-","v","i","s","i","o","n">>
text_embedding_3 == <<"t","e","x","t","-","e","m","b","e","d","d","i","n","g","-","3">>
gpt_3_5_turbo_instruct == gpt_3_5_turbo \o <<"-","i","n","s","t","r","u","c","t">>
gpt_4o_audio_preview == gpt_4o \o <<"-","a","u","d","i","o","-","p","r","e","v","i","e","w">>
gpt_3 == <<"g","p","t","-","3">>

\* what an element of "data" may be
ModelElements ==
    {JModel(JString(id)) :
        id \in {gpt_4o, gpt_4o_vision, text_embedding_3, gpt_3_5_turbo_instruct,
                gpt_3_5_turbo, gpt_4o_audio_preview, gpt_3}}
    \cup {JModel(Absent), JString(gpt_4)}

RECURSIVE ModelLists(_)
ModelLists(n) ==
    IF n = 0 THEN {<<>>}
    ELSE LET shorter == ModelLists(n - 1)
         IN shorter \cup {Append(l, e) : l \in {x \in shorter : Len(x) = n - 1},
                                          e \in ModelElements}

\* how a model listing may end without a "data" list, or with a short one
FewListingOutcomes ==
    {CurlInitFailed, TransportError, EmptyBody(200), Body(200, Unparseable),
     Body(200, ModelsDoc("none", Absent)),
     Body(200, ModelsDoc("array", Absent)),
     Body(401, ModelsDoc("object", Absent)),
     Body(200, ModelsDoc("object", JNull)),
     Body(200, ModelsDoc("object", JString(gpt_4))),
     Body(200, ModelsDoc("object", JModelList(<<JModel(JString(gpt_4o))>>)))}

\* how a model listing may end, over every "data" list of up to MaxModels
\* elements
ListingOutcomes ==
    FewListingOutcomes
    \cup {Body(200, ModelsDoc("object", JModelList(l))) : l \in ModelLists(MaxModels)}

\* the keys a listing is asked with
ListingKeys == {NULL, Placeholder, Key32} \cup {Key(n) : n \in 0..MaxKeyLen}

\* the configurations the dialog is shown for: every key, and some models
KeyConfigs ==
    {PluginConfig(k, gpt_4o_mini, DEFAULT_HOTKEY, NULL, NULL, NULL) : k \in ListingKeys}
ModelConfigs ==
    {PluginConfig(Key32, m, DEFAULT_HOTKEY, NULL, NULL, NULL) :
        m \in {NULL, gpt_4o, gpt_3_5_turbo}}

ListingInputs ==
    (KeyConfigs \X FewListingOutcomes) \cup (ModelConfigs \X ListingOutcomes)

ListingInit ==
    /\ file = NoFile
    /\ config = NULLCONFIG
    /\ llm_client = FALSE
    /\ ConfigIdle
    /\ ClientIdle
    /\ ExtIdle
    /\ call \in {[fn |-> "listing", done |-> FALSE, config |-> in[1],
                  outcome |-> in[2], fetched |-> NoGet, dialog |-> NoDialog] :
                    in \in ListingInputs}

\* llm_client_fetch_available_models on the key, and
\* llm_preferences_dialog_show on the configuration
ListModels ==
    /\ call.fn = "listing"
    /\ ~call.done
    /\ call' = [call EXCEPT
                  !.done = TRUE,
                  !.fetched = llm_client_fetch_available_models(
                                  call.config.openai_api_key, call.outcome),
                  !.dialog = llm_preferences_dialog_show(call.config, call.outcome)]
    /\ UNCHANGED <<file, config, llm_client, store_vars, client_vars, ext_vars>>

ListingNext == ListModels

SpecListing == ListingInit /\ [][ListingNext]_vars

\* ----------------------------------------- the text functions, on their own

\* every text made of up to n of the pieces
RECURSIVE Pieced(_, _)
Pieced(pieces, n) ==
    IF n = 0 THEN {<<>>}
    ELSE LET shorter == Pieced(pieces, n - 1)
         IN shorter \cup {t \o p : t \in shorter, p \in pieces}

PromptPieces ==
    {PROMPT_PREFIX, <<"/","a">>, <<" ">>, <<"x">>, <<"\n">>, <<"\t">>, <<"y"," ","z">>}

\* "/aw: write a reply\nmore text"
WriteAReply ==
    <<"/","a","w",":"," ","w","r","i","t","e"," ","a"," ","r","e","p","l","y","\n",
      "m","o","r","e"," ","t","e","x","t">>

PromptTexts == Pieced(PromptPieces, MaxPieces) \cup {NULL, WriteAReply}

HeaderPieces ==
    {From_, <<"X","-">>, <<" ">>, <<"J">>, <<"<">>, <<">">>, <<"@">>, <<"\n">>}

\* "From: Jane Doe <jane@example.com>\nSubject: x"
FromJaneDoe ==
    <<"F","r","o","m",":"," ","J","a","n","e"," ","D","o","e"," ","<",
      "j","a","n","e","@","e","x","a","m","p","l","e",".","c","o","m",">","\n",
      "S","u","b","j","e","c","t",":"," ","x">>

HeaderTexts == Pieced(HeaderPieces, MaxPieces) \cup {NULL, FromJaneDoe}

ComposePieces == {<<"O","n"," ">>, <<">"," ">>, <<"a">>, <<"\n">>, <<"O">>, <<">">>}

ComposeTexts == Pieced(ComposePieces, MaxPieces) \cup {NULL}

TextInit ==
    /\ file = NoFile
    /\ config = NULLCONFIG
    /\ llm_client = FALSE
    /\ ConfigIdle
    /\ ClientIdle
    /\ ExtIdle
    /\ call \in {[fn |-> "parse_prompt", done |-> FALSE, text |-> t,
                  has_prompt |-> h, result |-> FALSE, prompt |-> NULL] :
                    t \in PromptTexts, h \in BOOLEAN}
               \cup {[fn |-> "sender_info", done |-> FALSE, email_headers |-> t,
                       sender_name |-> NULL, sender_email |-> NULL] :
                         t \in HeaderTexts}
               \cup {[fn |-> "original_email", done |-> FALSE, compose_text |-> t,
                       original |-> NULL] :
                         t \in ComposeTexts}

ParsePrompt ==
    /\ call.fn = "parse_prompt"
    /\ ~call.done
    /\ LET r == llm_client_parse_prompt(call.text, call.has_prompt)
       IN call' = [call EXCEPT !.done = TRUE, !.result = r.result,
                               !.prompt = r.prompt]
    /\ UNCHANGED <<file, config, llm_client, store_vars, client_vars, ext_vars>>

ExtractSenderInfo ==
    /\ call.fn = "sender_info"
    /\ ~call.done
    /\ LET r == llm_client_extract_sender_info(call.email_headers, call.sender_name,
                                               call.sender_email)
       IN call' = [call EXCEPT !.done = TRUE, !.sender_name = r.sender_name,
                               !.sender_email = r.sender_email]
    /\ UNCHANGED <<file, config, llm_client, store_vars, client_vars, ext_vars>>

ExtractOriginalEmail ==
    /\ call.fn = "original_email"
    /\ ~call.done
    /\ call' = [call EXCEPT !.done = TRUE,
                            !.original = llm_client_extract_original_email(
                                             call.compose_text)]
    /\ UNCHANGED <<file, config, llm_client, store_vars, client_vars, ext_vars>>

TextNext == ParsePrompt \/ ExtractSenderInfo \/ ExtractOriginalEmail

SpecText == TextInit /\ [][TextNext]_vars

\* --------------------------------------- the preferences dialog, on its own

\* identifiers a listing may bring, in the order it brings them
FetchedIds ==
    <<gpt_4_turbo, gpt_4, gpt_3_5_turbo_instruct, gpt_4o, gpt_3, gpt_3_5_turbo,
      gpt_4o_mini, gpt_4o_audio_preview>>

\* how the listing made for the dialog may end: as for the extension, or with
\* a list of any length up to MaxModels + 2, which is longer than the
\* built-in one
DialogListOutcomes ==
    ListOutcomes
    \cup {Body(200, ModelsDoc("object",
                   JModelList([i \in 1..n |-> JModel(JString(FetchedIds[i]))]))) :
             n \in 1..(MaxModels + 2)}

\* the configurations the dialog is opened on
DialogConfigs ==
    {PluginConfig(k, m, DEFAULT_HOTKEY, <<"b">>, NULL, NULL) :
        k \in {Key32, <<>>}, m \in {gpt_4, gpt_4o, dall_e_3}}

DialogInit ==
    /\ config \in DialogConfigs
    /\ file \in {NoFile, config_save(config, NoFile, TRUE).file}
    /\ llm_client = llm_client_new(config)
    /\ ConfigIdle
    /\ ClientIdle
    /\ ExtIdle
    /\ call = [fn |-> "dialog", done |-> FALSE, response_id |-> "none",
               entries |-> <<>>, active |-> -1, api_key |-> NULL,
               system_prompt |-> NULL, config |-> config, file |-> file,
               llm_client |-> llm_client, saved |-> FALSE, saved_with |-> NULLCONFIG]

\* llm_preferences_dialog_show on the configuration
DialogShow ==
    /\ call.fn = "dialog"
    /\ ~call.done
    /\ ~prefs.open
    /\ \E outcome \in DialogListOutcomes :
          prefs' = llm_preferences_dialog_show(config, outcome)
    /\ UNCHANGED <<call, file, config, llm_client, store_vars, client_vars, ext,
                   current_composer, pending, stack, last, trigger, triggers,
                   dialogs, gets, posts>>

\* the user picks a row of the combo box
model_combo_changed ==
    /\ call.fn = "dialog"
    /\ prefs.open
    /\ \E row \in 0..(Len(prefs.entries) - 1) :
          /\ row # prefs.active
          /\ prefs' = [prefs EXCEPT !.active = gtk_combo_box_set_active(Len(prefs.entries), row)]
    /\ UNCHANGED <<call, file, config, llm_client, store_vars, client_vars, ext,
                   current_composer, pending, stack, last, trigger, triggers,
                   dialogs, gets, posts>>

\* a button of the dialog, or its window is closed: on_preferences_response,
\* with on_preferences_saved when the save callback is called.  call keeps
\* what the widgets held and what the configuration, the file and the client
\* were before.
DialogResponse ==
    /\ call.fn = "dialog"
    /\ prefs.open
    /\ \E response_id \in {"OK", "CANCEL", "DELETE_EVENT"},
          api_key_entry \in {OrDefault(config.openai_api_key, <<>>), <<>>, Key(11)},
          system_prompt_text \in {OrDefault(config.system_prompt, <<>>), <<>>},
          written \in BOOLEAN :
          LET c == on_preferences_response(config, response_id, api_key_entry,
                                           prefs.active, system_prompt_text)
              called == save_callback_called(response_id)
              saved == on_preferences_saved(c, file, llm_client, written)
          IN /\ config' = c
             /\ file' = IF called THEN saved.file ELSE file
             /\ llm_client' = IF called THEN saved.llm_client ELSE llm_client
             /\ call' = [call EXCEPT
                           !.done = TRUE, !.response_id = response_id,
                           !.entries = prefs.entries, !.active = prefs.active,
                           !.api_key = api_key_entry,
                           !.system_prompt = system_prompt_text,
                           !.config = config, !.file = file,
                           !.llm_client = llm_client,
                           !.saved = called,
                           !.saved_with = IF called THEN c ELSE NULLCONFIG]
    /\ prefs' = NoDialog
    /\ UNCHANGED <<store_vars, client_vars, ext, current_composer, pending, stack,
                   last, trigger, triggers, dialogs, gets, posts>>

DialogNext == DialogShow \/ model_combo_changed \/ DialogResponse

SpecDialog == DialogInit /\ [][DialogNext]_vars

\* ------------------------------------------------- properties: the client

Returned == exchange.state = "returned"

\* the call got as far as the exchange: a client, a request with a prompt,
\* and a transfer that was set up
Exchanged == Returned /\ exchange.transfers = 1

\* C3: a request starts unsent with no response, and
\* llm_client_generate_response returns TRUE exactly when it leaves
\* request->response populated, whatever the transport, the parser or the shape
\* of the document did.
C3_SuccessIffResponse ==
    /\ ~Returned /\ request # NULLREQUEST => request.response = NULL
    /\ Returned /\ request # NULLREQUEST =>
          (exchange.success <=> request.response # NULL)
    /\ Returned /\ request = NULLREQUEST => ~exchange.success

\* a call that succeeded on a content of blanks only: the response is
\* populated, with the empty text
C3_Witness ==
    /\ Returned
    /\ exchange.success
    /\ request.response = <<>>
    /\ exchange.outcome.kind = "body"

\* the document parsed to an object, and "choices" is missing, or an empty
\* list, or a list whose first choice lacks the message or the content
SchemaFailure(o) ==
    /\ o.kind = "body"
    /\ o.doc.parses
    /\ o.doc.root = "object"
    /\ \/ o.doc.choices.t = "absent"
       \/ /\ o.doc.choices.t = "array"
          /\ \/ o.doc.choices.items = <<>>
             \/ /\ o.doc.choices.items[1].t = "object"
                /\ \/ o.doc.choices.items[1].message.t = "absent"
                   \/ /\ o.doc.choices.items[1].message.t = "object"
                      /\ o.doc.choices.items[1].message.content.t = "absent"

\* C8: when the parsed response has no "choices", an empty "choices" list or a
\* first choice without message or content, llm_client_generate_response
\* returns FALSE and request->response stays absent.
C8_SchemaFailureFails ==
    Exchanged /\ SchemaFailure(exchange.outcome) =>
        /\ ~exchange.success
        /\ request.response = NULL

\* {"choices":[]} came back
C8_Witness ==
    /\ Exchanged
    /\ exchange.outcome.doc.choices = JChoices(<<>>)
    /\ ~exchange.success

Whitespace == {" ", "\t", "\n", "\r", "\f"}

\* r is s without its leading and trailing whitespace
IsTrimmed(r, s) ==
    /\ r = <<>> \/ (r[1] \notin Whitespace /\ r[Len(r)] \notin Whitespace)
    /\ \E lead \in 0..Len(s) :
          /\ lead + Len(r) <= Len(s)
          /\ SubSeq(s, lead + 1, lead + Len(r)) = r
          /\ \A i \in (1..lead) \cup ((lead + Len(r) + 1)..Len(s)) :
                s[i] \in Whitespace

\* the document parsed to an object whose "choices" list is not empty and
\* whose first choice has a message with a content string
HasContent(o) ==
    /\ o.kind = "body"
    /\ o.doc.parses
    /\ o.doc.root = "object"
    /\ o.doc.choices.t = "array"
    /\ o.doc.choices.items # <<>>
    /\ o.doc.choices.items[1].t = "object"
    /\ o.doc.choices.items[1].message.t = "object"
    /\ o.doc.choices.items[1].message.content.t = "string"

\* C9: when the "choices" list is not empty and its first element has a
\* message content string, the call succeeds and the generated text is that
\* content without its leading and trailing whitespace; later choices do not
\* count.
C9_FirstContentTrimmed ==
    Exchanged /\ HasContent(exchange.outcome) =>
        /\ exchange.success
        /\ IsTrimmed(request.response,
                     exchange.outcome.doc.choices.items[1].message.content.s)

\* content " a " in the first of two choices gave "a"
C9_Witness ==
    /\ Exchanged
    /\ HasContent(exchange.outcome)
    /\ Len(exchange.outcome.doc.choices.items) = 2
    /\ exchange.outcome.doc.choices.items[1].message.content.s = <<" ", "a", " ">>
    /\ request.response = <<"a">>

\* C10: the payload of every chat-completion POST holds exactly two messages,
\* the system message with the configured system prompt (the fixed default
\* text when none is set) and then the user message with the request's prompt
\* as it is, together with the configured model, max_tokens 500 and
\* temperature 0.7.
C10_Payload ==
    /\ exchange.transfers \in {0, 1}
    /\ Exchanged =>
          /\ Len(exchange.post.messages) = 2
          /\ exchange.post.messages[1].role = "system"
          /\ exchange.post.messages[1].content =
                IF config.system_prompt = NULL
                THEN <<"Y","o","u"," ","a","r","e"," ","a"," ","h","e","l","p","f","u","l"," ","e","m","a","i","l"," ","w","r","i","t","i","n","g"," ","a","s","s","i","s","t","a","n","t",".">>
                ELSE config.system_prompt
          /\ exchange.post.messages[2].role = "user"
          /\ exchange.post.messages[2].content = request.prompt
          /\ exchange.post.model = config.model
          /\ exchange.post.max_tokens = 500
          /\ exchange.post.temperature = 7

\* a POST built with no system prompt set, for a prompt with blanks around it
C10_Witness ==
    /\ Exchanged
    /\ config.system_prompt = NULL
    /\ request.prompt = <<" ", "a", "\n">>
    /\ exchange.post.messages[2].content = <<" ", "a", "\n">>

\* ------------------------------------------- properties: the config store

\* C2: config_is_valid answers TRUE exactly for a configuration whose API key
\* is present, is not the placeholder and has more than 10 characters; the
\* answer is FALSE for a NULL configuration, and no other field matters.
C2_ValidByKeyAlone ==
    cstep = <<"is_valid">> =>
        (is_valid <=> /\ config # NULLCONFIG
                      /\ config.openai_api_key \notin {NULL, Placeholder}
                      /\ Len(config.openai_api_key) >= 11)

\* an 11-character key is valid with model, hotkey and system prompt absent
C2_Witness ==
    /\ cstep = <<"is_valid">>
    /\ is_valid
    /\ config.openai_api_key = Key(11)
    /\ config.model = NULL
    /\ config.system_prompt = NULL

\* what C6 expects of a field that has a documented default: the value
\* saved, or the default when none was there
Reproduced(got, saved, default) ==
    got = (IF saved = NULL THEN default ELSE saved)

\* C6: config_load after a successful config_save(c) gives back every field
\* that c holds exactly, and the documented default for an absent model,
\* system prompt or hotkey.  (What an absent API key, user name or user email
\* comes back as is left open here.)
C6_RoundTrip ==
    cstep = <<"save", "load">> /\ save_result =>
        /\ loaded # NULLCONFIG
        /\ config.openai_api_key # NULL =>
              loaded.openai_api_key = config.openai_api_key
        /\ Reproduced(loaded.model, config.model, DEFAULT_MODEL)
        /\ Reproduced(loaded.system_prompt, config.system_prompt, DEFAULT_SYSTEM_PROMPT)
        /\ Reproduced(loaded.hotkey, config.hotkey, DEFAULT_HOTKEY)
        /\ config.user_name # NULL => loaded.user_name = config.user_name
        /\ config.user_email # NULL => loaded.user_email = config.user_email

\* --------------------------------------------- properties: the extension

\* on_js_selection_result has gone through a call of
\* llm_client_generate_response and returned
Called == last.selection = "text"

\* C1: a chat-completion POST is issued only when the configuration in force
\* at the moment of the call passes config_is_valid, whatever triggers,
\* preference edits, saves and selection callbacks came before.
C1_PostOnlyWhenValid ==
    Called /\ last.transfers > 0 => last.valid

\* C4: when the selection callback ran with selected text and the call
\* failed, the generation-failed dialog is run and nothing is inserted; text
\* is inserted only after a call that succeeded with a response, and it is
\* that response; no failed call goes without its dialog.
C4_FailureShownNothingInserted ==
    Called =>
        /\ ~last.success =>
              /\ last.dialog = "generation_failed"
              /\ last.inserted = NULL
        /\ last.inserted # NULL =>
              /\ last.success
              /\ last.response # NULL
              /\ last.inserted = last.response
        /\ last.dialog \in {"none", "generation_failed"}
        /\ last.dialog = "none" => last.success

\* the transfer was made and brought nothing usable: the dialog was run and
\* the compose view left alone
C4_Witness ==
    /\ Called
    /\ last.transfers = 1
    /\ ~last.success
    /\ last.dialog = "generation_failed"
    /\ last.inserted = NULL
    /\ current_composer

\* C5: no call of llm_client_generate_response makes more than one transfer,
\* and every transfer made so far is that of a different use of the generate
\* action whose selection callback has run: a failed call is followed by no
\* further POST until the action is used again.
C5_OnePostPerTrigger ==
    /\ last.transfers \in {0, 1}
    /\ posts + Len(pending) + Len(stack) <= triggers

\* the action was used twice and each use led to one transfer, the last
\* one failed
C5_Witness ==
    /\ triggers = 2
    /\ posts = 2
    /\ pending = <<>>
    /\ stack = <<>>
    /\ Called
    /\ ~last.success
    /\ last.transfers = 1

\* C7: config_load gives no configuration exactly when the storage cannot be
\* read or parsed; otherwise model, hotkey and system prompt are present, a
\* missing one being "gpt-4o-mini", "ctrl+shift+g" or "You are a helpful
\* email writing assistant."; and an extension without configuration has no
\* client, shows no preferences dialog and makes no transfer.
C7_LoadOrUnconfigured ==
    /\ ext = "init" =>
          /\ config = NULLCONFIG <=> ~(file.exists /\ file.parseable)
          /\ config # NULLCONFIG =>
                /\ config.model # NULL
                /\ config.hotkey # NULL
                /\ config.system_prompt # NULL
                /\ file.model = NULL =>
                      config.model = <<"g","p","t","-","4","o","-","m","i","n","i">>
                /\ file.hotkey = NULL =>
                      config.hotkey = <<"c","t","r","l","+","s","h","i","f","t","+","g">>
                /\ file.system_prompt = NULL =>
                      config.system_prompt = <<"Y","o","u"," ","a","r","e"," ","a"," ","h","e","l","p","f","u","l"," ","e","m","a","i","l"," ","w","r","i","t","i","n","g"," ","a","s","s","i","s","t","a","n","t",".">>
    /\ ext \in {"init", "live"} /\ config = NULLCONFIG =>
          /\ ~llm_client
          /\ ~prefs.open
          /\ pending = <<>>
          /\ stack = <<>>
          /\ posts = 0
          /\ gets = 0
    /\ ext = "live" /\ config # NULLCONFIG =>
          /\ config.model # NULL
          /\ config.hotkey # NULL
          /\ config.system_prompt # NULL

\* the file did not parse, and both actions have been used since
C7_Witness ==
    /\ ext = "live"
    /\ file = UnparseableFile
    /\ config = NULLCONFIG
    /\ trigger = "invalid_config"
    /\ dialogs = 1


\* ----------------------------------------- properties: the model listing

Listed == call.fn = "listing" /\ call.done

\* the listing got a body that parsed to an object with a "data" list
HasData(o) ==
    /\ o.kind = "body"
    /\ o.doc.parses
    /\ o.doc.root = "object"
    /\ o.doc.data.t = "array"

StartsWith(s, t) == Len(s) >= Len(t) /\ \A i \in 1..Len(t) : s[i] = t[i]
EndsWith(s, t) ==
    Len(s) >= Len(t) /\ \A i \in 1..Len(t) : s[Len(s) - Len(t) + i] = t[i]

\* an element of "data" whose identifier C11 wants kept
Wanted(e) ==
    /\ e.t = "object"
    /\ e.id.t = "string"
    /\ \/ StartsWith(e.id.s, <<"g","p","t","-","4">>)
       \/ StartsWith(e.id.s, <<"g","p","t","-","3",".","5">>)
    /\ ~EndsWith(e.id.s, <<"-","v","i","s","i","o","n">>)
    /\ ~EndsWith(e.id.s, <<"-","i","n","s","t","r","u","c","t">>)
    /\ ~EndsWith(e.id.s, <<"-","a","u","d","i","o","-","p","r","e","v","i","e","w">>)

\* the identifiers wanted, in the order of the list, each as often as it
\* stands there
RECURSIVE WantedIds(_)
WantedIds(items) ==
    IF items = <<>> THEN <<>>
    ELSE (IF Wanted(Head(items)) THEN <<Head(items).id.s>> ELSE <<>>)
         \o WantedIds(Tail(items))

\* C11: from a "data" list, llm_client_fetch_available_models gives exactly
\* the identifiers that start with "gpt-4" or "gpt-3.5" and do not end with
\* "-vision", "-instruct" or "-audio-preview", in the provider's order and
\* with duplicates kept.
C11_ModelFilter ==
    Listed /\ call.fetched.transfers = 1 /\ HasData(call.outcome) =>
        /\ ~call.fetched.models.null
        /\ call.fetched.models.ids = WantedIds(call.outcome.doc.data.items)

\* [gpt-4o, gpt-4o-vision, text-embedding-3, gpt-3.5-turbo-instruct] gave
\* [gpt-4o]
C11_Witness ==
    /\ Listed
    /\ call.fetched.transfers = 1
    /\ HasData(call.outcome)
    /\ call.outcome.doc.data.items =
          <<JModel(JString(<<"g","p","t","-","4","o">>)),
            JModel(JString(<<"g","p","t","-","4","o","-","v","i","s","i","o","n">>)),
            JModel(JString(text_embedding_3)),
            JModel(JString(gpt_3_5_turbo_instruct))>>
    /\ call.fetched.models.ids = <<<<"g","p","t","-","4","o">>>>


\* the listing made its transfer and met a transport error, an empty or
\* unparseable body, or a document without a "data" member
ListingFailure(o) ==
    \/ o.kind \in {"transport_error", "empty_body"}
    \/ o.kind = "body" /\ ~o.doc.parses
    \/ o.kind = "body" /\ o.doc.parses /\ o.doc.root # "object"
    \/ o.kind = "body" /\ o.doc.parses /\ o.doc.root = "object"
          /\ o.doc.data.t = "absent"

\* a listing result with no identifier in it
NoModels(models) == models.null \/ models.ids = <<>>

\* C12: after a transport error, an unparseable body or a document without
\* "data" the listing gives no identifier, and whenever the dialog has no
\* identifier from a listing it is shown with the built-in list gpt-4o,
\* gpt-4o-mini, gpt-4-turbo, gpt-4, gpt-3.5-turbo.
C12_ListingDegrades ==
    Listed =>
        /\ ListingFailure(call.outcome) => NoModels(call.fetched.models)
        /\ call.dialog.open
        /\ NoModels(call.fetched.models) =>
              call.dialog.entries =
                 <<<<"g","p","t","-","4","o">>,
                   <<"g","p","t","-","4","o","-","m","i","n","i">>,
                   <<"g","p","t","-","4","-","t","u","r","b","o">>,
                   <<"g","p","t","-","4">>,
                   <<"g","p","t","-","3",".","5","-","t","u","r","b","o">>>>
        /\ call.dialog.entries # <<>>

\* the listing met a transport error and the dialog shows the built-in list
C12_Witness ==
    /\ Listed
    /\ call.outcome = TransportError
    /\ call.fetched.transfers = 1
    /\ call.fetched.models.null
    /\ Len(call.dialog.entries) = 5
    /\ call.dialog.active = 1


\* C13: llm_client_fetch_available_models makes its GET only for a key that
\* is present and at least 11 characters long; for an absent key or one of 10
\* characters or fewer it makes no transfer and gives no list.
C13_GetNeedsElevenCharacters ==
    Listed =>
        LET api_key == call.config.openai_api_key
        IN /\ call.fetched.transfers = 1 => api_key # NULL /\ Len(api_key) >= 11
           /\ api_key = NULL \/ Len(api_key) <= 10 =>
                 /\ call.fetched.transfers = 0
                 /\ call.fetched.models.null

\* --------------------------------- properties: the preferences dialog

\* C14: no model-listing GET is made while the configuration is invalid: a
\* preferences dialog opened on an absent, too short or placeholder key has
\* made no transfer.
C14_NoGetWhileInvalid ==
    prefs.open /\ prefs.get # NULL => config_is_valid(config)


\* ------------------------------------- properties: the calls under way

\* C15: the request of a generation bears the API key, the model and the
\* system prompt that were in force when the generation was triggered, also
\* when preferences were saved between the trigger and the request.
C15_RequestAsTriggered ==
    \A i \in Performing :
        /\ stack[i].post.authorization = stack[i].at_trigger.openai_api_key
        /\ stack[i].post.model = stack[i].at_trigger.model
        /\ stack[i].post.messages[1].content = stack[i].at_trigger.system_prompt

\* C16: at most one chat-completion transfer is under way at any time,
\* whatever the order of uses of the generate action and of selection
\* callbacks, those dispatched from the event pump of another included.
C16_OneTransferAtATime ==
    Cardinality(Performing) <= 1

\* the generate action was used twice before any callback ran, the second
\* callback was dispatched from the event pump of the first, and its
\* transfer is under way while the first stands in its pump
C16_Witness ==
    /\ triggers = 2
    /\ Len(stack) = 2
    /\ ~stack[1].performing
    /\ stack[2].performing


\* C20: once loaded, and after any preferences dialog closed with OK or
\* Cancel and any save that went through or failed, the extension holds a
\* client exactly when its configuration in memory is valid.
C20_ClientIffValid ==
    ext \in {"init", "live"} => (llm_client <=> config_is_valid(config))


\* ------------------------------------- properties: the failures of a call

\* C17: a transfer that fails and a body that is not JSON both end the call
\* with FALSE and no response, and they differ in what the call lets out: the
\* parse failure logs the warning "JSON parse error", the transport failure
\* logs none.
C17_TransportAndParseFailuresDiffer ==
    Exchanged =>
        /\ exchange.outcome.kind = "transport_error" =>
              /\ ~exchange.success
              /\ request.response = NULL
              /\ exchange.warning = "none"
        /\ exchange.outcome.kind = "body" /\ ~exchange.outcome.doc.parses =>
              /\ ~exchange.success
              /\ request.response = NULL
              /\ exchange.warning = "JSON parse error"

\* a body that is not JSON came back
C17_Witness ==
    /\ Exchanged
    /\ exchange.outcome = Body(200, Unparseable)
    /\ ~exchange.success
    /\ exchange.warning # "none"


\* -------------------------------------- properties: the text functions

Parsed == call.fn = "parse_prompt" /\ call.done /\ call.text # NULL /\ call.has_prompt

\* the places where t stands in s
Occurrences(s, t) ==
    {i \in 1..(Len(s) - Len(t) + 1) : \A k \in 1..Len(t) : s[i + k - 1] = t[k]}

\* the index of the first member of a non-empty set of indexes
First(indexes) == CHOOSE i \in indexes : \A j \in indexes : i <= j

\* s from index from up to the next line break, or to its end
RestOfLine(s, from) ==
    LET breaks == {i \in from..Len(s) : s[i] = "\n"}
    IN SubSeq(s, from, IF breaks = {} THEN Len(s) ELSE First(breaks) - 1)

\* C18: llm_client_parse_prompt returns TRUE exactly when the text holds
\* "/aw:" and what stands between its first occurrence and the next line
\* break, or the end of the text, is not blank; the prompt is then that
\* stretch without the whitespace around it.
C18_ParsePrompt ==
    Parsed =>
        LET markers == Occurrences(call.text, <<"/","a","w",":">>)
        IN /\ markers = {} => ~call.result
           /\ markers # {} =>
                 LET rest == RestOfLine(call.text, First(markers) + 4)
                 IN /\ call.result <=> (\E i \in 1..Len(rest) : rest[i] \notin Whitespace)
                    /\ call.result => IsTrimmed(call.prompt, rest)

\* "/aw: write a reply\nmore text" gave "write a reply"
C18_Witness ==
    /\ Parsed
    /\ call.text = WriteAReply
    /\ call.result
    /\ call.prompt = <<"w","r","i","t","e"," ","a"," ","r","e","p","l","y">>


Extracted == call.fn = "sender_info" /\ call.done /\ call.email_headers # NULL

\* s without the whitespace around it
Trim(s) ==
    CHOOSE r \in {SubSeq(s, i, j) : i \in 1..(Len(s) + 1), j \in 0..Len(s)} :
        IsTrimmed(r, s)

\* C19: with the first line that begins with "From:" and what follows the
\* label on it, trimmed: an address between '<' and '>' gives the trimmed
\* text before '<' as the name and the text between them as the address;
\* with no angle bracket at all, a remainder holding '@' is the address and
\* the name is "Unknown"; with no such line, or a remainder of neither
\* form, both outputs stay unset.
C19_SenderInfo ==
    Extracted =>
        LET h == call.email_headers
            from_lines == {p \in Occurrences(h, <<"F","r","o","m",":">>) :
                              p = 1 \/ h[p - 1] = "\n"}
            unset == call.sender_name = NULL /\ call.sender_email = NULL
        IN /\ from_lines = {} => unset
           /\ from_lines # {} =>
                 LET remainder == Trim(RestOfLine(h, First(from_lines) + 5))
                     opens == {i \in 1..Len(remainder) : remainder[i] = "<"}
                     closes == {i \in 1..Len(remainder) : remainder[i] = ">"}
                     after == {i \in closes : opens # {} /\ i > First(opens)}
                     at == \E i \in 1..Len(remainder) : remainder[i] = "@"
                 IN /\ after # {} =>
                          /\ call.sender_name =
                                Trim(SubSeq(remainder, 1, First(opens) - 1))
                          /\ call.sender_email =
                                SubSeq(remainder, First(opens) + 1, First(after) - 1)
                    /\ opens # {} /\ after = {} => unset
                    /\ opens = {} /\ closes = {} /\ at =>
                          /\ call.sender_name = <<"U","n","k","n","o","w","n">>
                          /\ call.sender_email = remainder
                    /\ opens = {} /\ closes = {} /\ ~at => unset

\* the same, for the headers whose first "From:" begins a line
C19_FirstFromBeginsALine ==
    (/\ Extracted
     /\ LET found == Occurrences(call.email_headers, <<"F","r","o","m",":">>)
        IN found # {} => (First(found) = 1 \/ call.email_headers[First(found) - 1] = "\n"))
        => C19_SenderInfo

\* "From: Jane Doe <jane@example.com>\nSubject: x" gave "Jane Doe" and
\* "jane@example.com"
C19_JaneDoe ==
    /\ Extracted
    /\ call.email_headers = FromJaneDoe
    /\ call.sender_name = <<"J","a","n","e"," ","D","o","e">>
    /\ call.sender_email = <<"j","a","n","e","@","e","x","a","m","p","l","e",".","c","o","m">>


\* --------------------------------- properties: the composer at the callback

\* C21: every on_js_selection_result (each takes the oldest evaluation off
\* the evaluations under way) runs while priv->current_composer is non-NULL,
\* and no call standing in its event pump or in its transfer loses the
\* composer.
C21_ComposerAtCallback ==
    [][/\ (pending # <<>> /\ pending' = Tail(pending)) => current_composer
       /\ stack # <<>> => current_composer]_vars


\* ----------------------------------- properties: the dialog's responses

Responded == call.fn = "dialog" /\ call.done

\* C22: after OK with a row of the combo box active, the model of the
\* configuration is the identifier that row shows, whichever list filled the
\* combo box.
C22_SelectedModelWritten ==
    (Responded /\ call.response_id = "OK" /\ call.active >= 0) =>
        config.model = call.entries[call.active + 1]

\* C23: on_preferences_saved is called exactly on OK, and with the
\* configuration that holds what the widgets held; on any other response the
\* configuration, the file and the client are what they were.
C23_SavedExactlyOnOk ==
    Responded =>
        /\ call.saved <=> call.response_id = "OK"
        /\ call.saved =>
              /\ call.saved_with = config
              /\ config.openai_api_key = call.api_key
              /\ config.system_prompt = call.system_prompt
        /\ call.response_id # "OK" =>
              /\ config = call.config
              /\ file = call.file
              /\ llm_client = call.llm_client

\* OK was pressed on changed widgets and the save went through
C23_Witness ==
    /\ Responded
    /\ call.response_id = "OK"
    /\ call.saved
    /\ config # call.config
    /\ file # call.file
    /\ llm_client # call.llm_client


\* ------------------------------------ properties: starting without a file

\* the configuration cannot be used: there is none, or its key is missing,
\* the placeholder, or of 10 characters or fewer
NotYetValid ==
    \/ config = NULLCONFIG
    \/ config.openai_api_key = NULL
    \/ config.openai_api_key = Placeholder
    \/ Len(config.openai_api_key) <= 10

\* nothing has been configured: no client, no call made or under way
Unconfigured ==
    /\ NotYetValid
    /\ ~llm_client
    /\ posts = 0
    /\ pending = <<>>
    /\ stack = <<>>

\* C24: e_llm_extension_init on missing storage leaves, when the file can be
\* written, the file and the configuration with the placeholder key,
\* "gpt-4o-mini", "ctrl+shift+g" and the default system prompt, and in any
\* case no usable configuration and no client; as long as no usable key is
\* put into the configuration this stays so, and every use of the generate
\* action ends with the invalid-configuration warning and no transfer.
C24_DefaultsThenWarning ==
    [][/\ (ext = "new" /\ ext' = "init" /\ ~file.exists) =>
             /\ Unconfigured'
             /\ file'.exists =>
                   /\ file' = KeyFile(Placeholder,
                                      <<"g","p","t","-","4","o","-","m","i","n","i">>,
                                      <<"c","t","r","l","+","s","h","i","f","t","+","g">>,
                                      DEFAULT_SYSTEM_PROMPT, DEFAULT_USER_NAME,
                                      DEFAULT_USER_EMAIL)
                   /\ config' = PluginConfig(Placeholder,
                                      <<"g","p","t","-","4","o","-","m","i","n","i">>,
                                      <<"c","t","r","l","+","s","h","i","f","t","+","g">>,
                                      DEFAULT_SYSTEM_PROMPT, DEFAULT_USER_NAME,
                                      DEFAULT_USER_EMAIL)
       /\ (Unconfigured /\ NotYetValid') => Unconfigured'
       /\ (Unconfigured /\ triggers' # triggers) =>
             /\ trigger' = "invalid_config"
             /\ posts' = posts
             /\ pending' = pending]_vars

\* started without a file, the generate action was used and ended with the
\* warning, the preferences were saved with a key that cannot be used, and
\* the action was used again
C24_Witness ==
    /\ trigger = "invalid_config"
    /\ triggers = 2
    /\ dialogs = 1
    /\ ~prefs.open
    /\ config # NULLCONFIG
    /\ config.openai_api_key = <<>>
    /\ file.exists
    /\ file.name = DEFAULT_USER_NAME
    /\ ~llm_client
    /\ posts = 0


\* ------------------------------------------ properties: the HTTP status

\* C25: a call whose transfer delivered a response with a status outside
\* 200..299 does not succeed and leaves no response in the request.
C25_SuccessOnlyOn2xx ==
    (/\ Exchanged
     /\ exchange.outcome.kind \in {"body", "empty_body"}
     /\ ~(exchange.outcome.status \in 200..299)) =>
        /\ ~exchange.success
        /\ request.response = NULL


Quoted == call.fn = "original_email" /\ call.done

\* C26: llm_client_extract_original_email returns the text from the earliest
\* place where "On " or "> " stands up to the end, and NULL for a text
\* without either or a NULL text.
C26_FromEarliestMarker ==
    Quoted =>
        IF call.compose_text = NULL THEN call.original = NULL
        ELSE LET markers == Occurrences(call.compose_text, <<"O","n"," ">>)
                            \cup Occurrences(call.compose_text, <<">"," ">>)
             IN IF markers = {} THEN call.original = NULL
                ELSE call.original = SubSeq(call.compose_text, First(markers),
                                            Len(call.compose_text))

\* the same, for the texts in which no "> " stands before the first "On "
C26_AttributionFirst ==
    (/\ Quoted
     /\ call.compose_text # NULL
     /\ LET on == Occurrences(call.compose_text, <<"O","n"," ">>)
        IN on # {} => \A i \in Occurrences(call.compose_text, <<">"," ">>) :
                         i > First(on))
        => C26_FromEarliestMarker

=============================================================================
